---------------------------- MODULE Spec2Model ----------------------------
(***************************************************************************)
(* Query routing and retrieval orchestration of the GeoGLI chatbot.        *)
(*                                                                         *)
(* Modelled code:                                                          *)
(*   backend/app/utils/sse.py      create_sse_stream (streaming endpoint)  *)
(*   backend/app/main.py           non_stream_query  (POST /query)         *)
(*   backend/app/router_graph.py   the LangGraph nodes and edges           *)
(*   backend/app/rag/retriever.py  DenseRetriever.retrieve                 *)
(*   backend/app/rag/vectorstore.py FAISSVectorStore                       *)
(*                                                                         *)
(* One request is in flight at a time; the process-wide objects (feature   *)
(* flags, vector store, dense retriever) survive from request to request.  *)
(*                                                                         *)
(* Reading of sse.py.  The four "Guard LLM import" blocks (lines 170-173,  *)
(* 202-205, 247-250, 319-322) are indented one level deeper than the       *)
(* statements around them.  They are read here as statements of the        *)
(* enclosing block, executed in order; this is the only reading under      *)
(* which create_sse_stream has a behaviour at all.                         *)
(*                                                                         *)
(* Line 117 of sse.py evaluates `app.state`.  The name `app` is bound      *)
(* nowhere in the function or in the module (line 51 binds `app_ref`;      *)
(* `from app.x import y` does not bind `app`), so the evaluation raises    *)
(* NameError on every execution that reaches it.  Lines 118-303 of the     *)
(* try body are therefore never executed and have no action here.          *)
(*                                                                         *)
(* Collaborators outside the repository core are taken at their contract:  *)
(* the modules named in import statements import, db.save_message does     *)
(* not raise, lexical handlers return a list of dicts or raise, and a      *)
(* generation stream is finite (it may raise at any point).                *)
(*                                                                         *)
(* Scores are inner products.  Vector components are integers in tenths,   *)
(* so a score is an integer in hundredths and 0.3 is 30.                   *)
(***************************************************************************)
EXTENDS Integers, Sequences, FiniteSets, TLC

(***************************************************************************)
(* Bounds of the model.                                                    *)
(***************************************************************************)
MaxHits == 2
MaxTokens == 2
DisclaimerLen == 2
MaxRequests == 2
MaxVecs == 2

(***************************************************************************)
(* Program constants.                                                      *)
(***************************************************************************)
\* min_score = 0.3, in hundredths (sse.py:234, router_graph.py:164)
min_score == 30
\* top_k = 6 in run_route_b (router_graph.py:154)
graph_top_k == 6
\* int(os.getenv("TOP_K", "6")) with TOP_K unset (main.py:65, main.py:112)
default_top_k == 6
\* top_k: Optional[int] = None (main.py:96); 0 stands for None.
NoTopK == 0

Range(s) == {s[i] : i \in 1..Len(s)}

Intents == {"ask.country", "commit.region", "commit.country", "law.lookup"}

\* The disclaimer string of sse.py:308, one element per character.
disclaimer == [i \in 1..DisclaimerLen |-> <<"d", i>>]

\* The units of text produced by the generation collaborator, in order.
GenToken(j) == <<"t", j>>

(***************************************************************************)
(* Hits of the lexical tier: dicts with a citation_path.                   *)
(***************************************************************************)
Paths == {"backend/data/a.png", "other/b.png"}

\* sse.py:58-59  p.replace("backend/data", "/static-data")
_to_public_path(p) ==
  IF p = "backend/data/a.png" THEN "/static-data/a.png" ELSE p

RawHit == [citation_path : Paths]

HitLists == UNION {[1..n -> RawHit] : n \in 0..MaxHits}

\* What a lexical handler does: it returns a list of hits or it raises.
HandlerResults == [raises : {FALSE}, hits : HitLists] \cup
                  {[raises |-> TRUE, hits |-> <<>>]}

\* sse.py:81-85  the loop that rewrites the paths of every hit
MapHits(hs) == [i \in 1..Len(hs) |->
                  [hs[i] EXCEPT !.citation_path = _to_public_path(@)]]

(***************************************************************************)
(* Vector store (vectorstore.py) and its persisted artifacts.              *)
(***************************************************************************)
Vectors == {<<10, 0>>, <<3, 0>>, <<0, 10>>}
QueryVecs == {<<10, 0>>, <<0, 10>>}
Metas == {[source |-> "http://a", chunk_id |-> 1],
          [source |-> "doc.pdf", chunk_id |-> 2]}

\* self.dimension = None
NoDim == 0
Dim == 2

\* FAISSVectorStore.__init__: index None, metadata [], dimension None
EmptyStore == [has_index |-> FALSE, vectors |-> <<>>, metadata |-> <<>>,
               dimension |-> NoDim]

\* json.dump / json.load of the metadata list: the file holds, per entry,
\* the key/value pairs of the dict in insertion order.
json_dump(metadata) ==
  [n \in 1..Len(metadata) |->
     << <<"source", metadata[n].source>>,
        <<"chunk_id", metadata[n].chunk_id>> >>]

\* Mutation of json_load: the entries come back in reverse order.
json_load_mutant(document) ==
  [n \in 1..Len(document) |->
     [source |-> document[Len(document) + 1 - n][1][2],
      chunk_id |-> document[Len(document) + 1 - n][2][2]]]

json_load(document) ==
  [n \in 1..Len(document) |->
     [source |-> document[n][1][2], chunk_id |-> document[n][2][2]]]

\* The three artifacts under INDEX_PATH.  Each file is missing, unreadable
\* (read_index or json.load raises on it, or info.json has no "dimension")
\* or ok; vectors, metadata and info are what an ok file holds.
FileStatus == {"missing", "unreadable", "ok"}

NoDisk == [index_file |-> "missing", metadata_file |-> "missing",
           info_file |-> "missing", vectors |-> <<>>, metadata |-> <<>>,
           info |-> [dimension |-> NoDim, total_vectors |-> 0]]

\* What FAISSVectorStore.save writes for an index with the given entries.
DiskImage(vecs, metas) ==
  [index_file |-> "ok", metadata_file |-> "ok", info_file |-> "ok",
   vectors |-> vecs, metadata |-> json_dump(metas),
   info |-> [dimension |-> Dim, total_vectors |-> Len(vecs)]]

\* The entries of a persisted index, a vector and its metadata: two chunks
\* of the URL source and one of the local document.
Entries ==
  {e \in Vectors \X Metas : (e[1] = <<0, 10>>) = (e[2].source = "doc.pdf")}

DiskImages ==
  {NoDisk} \cup
  UNION {{DiskImage([k \in 1..n |-> e[k][1]], [k \in 1..n |-> e[k][2]]) :
            e \in [1..n -> Entries]} : n \in 0..MaxVecs}

\* FAISSVectorStore.load (vectorstore.py:104-136): False when a file is
\* missing; otherwise index, metadata and dimension are replaced one after
\* the other, and the first file that cannot be read ends the load with
\* False, what was replaced before it staying replaced.
Load(vs, dsk) ==
  IF "missing" \in {dsk.index_file, dsk.metadata_file, dsk.info_file}
    THEN [ok |-> FALSE, vs |-> vs]
  ELSE IF dsk.index_file = "unreadable"
    THEN [ok |-> FALSE, vs |-> vs]
  ELSE LET vs1 == [vs EXCEPT !.has_index = TRUE, !.vectors = dsk.vectors]
       IN  IF dsk.metadata_file = "unreadable"
             THEN [ok |-> FALSE, vs |-> vs1]
           ELSE LET vs2 == [vs1 EXCEPT !.metadata = json_load(dsk.metadata)]
                IN  IF dsk.info_file = "unreadable"
                      THEN [ok |-> FALSE, vs |-> vs2]
                      ELSE [ok |-> TRUE,
                            vs |-> [vs2 EXCEPT
                                      !.dimension = dsk.info.dimension]]

\* Mutation of get_stats: an index without vectors is reported as not
\* initialized.
get_stats_mutant(vs) ==
  IF ~vs.has_index \/ vs.vectors = <<>>
    THEN [status |-> "not_initialized", total_vectors |-> 0]
    ELSE [status |-> "loaded", total_vectors |-> Len(vs.vectors)]

\* FAISSVectorStore.get_stats
get_stats(vs) ==
  IF ~vs.has_index
    THEN [status |-> "not_initialized", total_vectors |-> 0]
    ELSE [status |-> "loaded", total_vectors |-> Len(vs.vectors)]

\* IndexFlatIP: the inner product of the query with a stored vector.
Dot(a, b) == a[1] * b[1] + a[2] * b[2]

Min(a, b) == IF a < b THEN a ELSE b

\* index.search: the k best positions by inner product, best first, equal
\* scores in insertion order.
RECURSIVE TopK(_, _, _)
TopK(scores, k, chosen) ==
  IF k = 0 \/ Len(chosen) = Len(scores)
    THEN chosen
    ELSE LET rem == {i \in 1..Len(scores) : i \notin Range(chosen)}
             best == CHOOSE i \in rem :
                       \A j \in rem : \/ scores[i] > scores[j]
                                      \/ scores[i] = scores[j] /\ i <= j
         IN  TopK(scores, k - 1, Append(chosen, best))

\* FAISSVectorStore.search
search(vs, query_vector, top_k) ==
  IF ~vs.has_index \/ Len(vs.vectors) = 0
    THEN <<>>
    ELSE LET scores == [i \in 1..Len(vs.vectors) |->
                          Dot(query_vector, vs.vectors[i])]
             idx == TopK(scores, Min(top_k, Len(vs.vectors)), <<>>)
             valid == SelectSeq(idx, LAMBDA i : i <= Len(vs.metadata))
         IN  [n \in 1..Len(valid) |->
                [source |-> vs.metadata[valid[n]].source,
                 chunk_id |-> vs.metadata[valid[n]].chunk_id,
                 score |-> scores[valid[n]]]]

\* Mutation of search_store: the score is written into the stored entry
\* (no copy).
search_store_mutant(vs, query_vector, top_k) ==
  IF search(vs, query_vector, top_k) = <<>> THEN vs
  ELSE [vs EXCEPT !.metadata =
          [n \in 1..Len(vs.metadata) |->
             IF n <= Len(vs.vectors)
               THEN [source |-> vs.metadata[n].source,
                     chunk_id |-> vs.metadata[n].chunk_id,
                     score |-> Dot(query_vector, vs.vectors[n])]
               ELSE vs.metadata[n]]]

\* vectorstore.py:67-77  the store after a search: the query is reshaped
\* into a new array and each result is a copy of the stored entry, so the
\* score is written into the copy
search_store(vs, query_vector, top_k) == vs

(***************************************************************************)
(* DenseRetriever.retrieve (retriever.py:23-75).  embedOk says whether     *)
(* the embedding provider imports and embeds; qvec is the vector it gives. *)
(* The result carries the documents and the new process-wide state.        *)
(***************************************************************************)
\* Mutation of retrieve: _index_loaded is set only when load() succeeded.
retrieve_mutant(vs, loaded, dsk, embedOk, qvec, top_k) ==
  LET ld == IF loaded THEN [ok |-> TRUE, vs |-> vs] ELSE Load(vs, dsk)
      load == IF loaded THEN "skipped" ELSE IF ld.ok THEN "ok" ELSE "failed"
      st == get_stats(ld.vs)
  IN  IF st.status # "loaded" \/ st.total_vectors = 0
        THEN [docs |-> <<>>, vs |-> ld.vs, loaded |-> ld.ok,
              embedded |-> FALSE, load |-> load]
        ELSE IF ~embedOk
          THEN [docs |-> <<>>, vs |-> ld.vs, loaded |-> ld.ok,
                embedded |-> TRUE, load |-> load]
          ELSE [docs |-> search(ld.vs, qvec, top_k), vs |-> ld.vs,
                loaded |-> ld.ok, embedded |-> TRUE, load |-> load]

retrieve(vs, loaded, dsk, embedOk, qvec, top_k) ==
  LET ld == IF loaded THEN [ok |-> TRUE, vs |-> vs] ELSE Load(vs, dsk)
      \* retriever.py:41-42: the return value of load() is not looked at
      load == IF loaded THEN "skipped" ELSE IF ld.ok THEN "ok" ELSE "failed"
      st == get_stats(ld.vs)
  IN  IF st.status # "loaded" \/ st.total_vectors = 0
        THEN [docs |-> <<>>, vs |-> ld.vs, loaded |-> TRUE,
              embedded |-> FALSE, load |-> load]
        ELSE IF ~embedOk
          THEN [docs |-> <<>>, vs |-> ld.vs, loaded |-> TRUE,
                embedded |-> TRUE, load |-> load]
          ELSE [docs |-> search(ld.vs, qvec, top_k), vs |-> ld.vs,
                loaded |-> TRUE, embedded |-> TRUE, load |-> load]

\* doc.get("score", 0)
DocScore(doc) == IF "score" \in DOMAIN doc THEN doc.score ELSE 0

\* Mutation of high_confidence_docs: the threshold itself passes.
high_confidence_docs_mutant(docs) ==
  SelectSeq(docs, LAMBDA doc : DocScore(doc) >= min_score)

\* [doc for doc in retrieved_docs if doc.get("score", 0) > min_score]
high_confidence_docs(retrieved_docs) ==
  SelectSeq(retrieved_docs, LAMBDA doc : DocScore(doc) > min_score)

(***************************************************************************)
(* search/router_intent.py: route().  A text is a sequence of characters,  *)
(* one string per code point; a code point outside ASCII is written by its *)
(* number ("U+6CD5").  The queries are built from the phrases below, which *)
(* hold the words of the test cases of router_intent.py:126-142.           *)
(***************************************************************************)
MaxPhrases == 2

\* The spelling of every keyword, alias and phrase used by the model.
Chars ==
  "saudi" :> <<"s", "a", "u", "d", "i">>
  @@ "ksa" :> <<"k", "s", "a">>
  @@ "U+6C99U+7279" :> <<"U+6C99", "U+7279">>
  @@ "saudi arabia" :> <<"s", "a", "u", "d", "i", " ", "a", "r", "a", "b", "i", "a">>
  @@ "mena" :> <<"m", "e", "n", "a">>
  @@ "middle east and north africa" :> <<"m", "i", "d", "d", "l", "e", " ", "e", "a", "s", "t", " ", "a", "n", "d", " ", "n", "o", "r", "t", "h", " ", "a", "f", "r", "i", "c", "a">>
  @@ "middle east" :> <<"m", "i", "d", "d", "l", "e", " ", "e", "a", "s", "t">>
  @@ "north africa" :> <<"n", "o", "r", "t", "h", " ", "a", "f", "r", "i", "c", "a">>
  @@ "sub-saharan africa" :> <<"s", "u", "b", "-", "s", "a", "h", "a", "r", "a", "n", " ", "a", "f", "r", "i", "c", "a">>
  @@ "sub saharan africa" :> <<"s", "u", "b", " ", "s", "a", "h", "a", "r", "a", "n", " ", "a", "f", "r", "i", "c", "a">>
  @@ "ssa" :> <<"s", "s", "a">>
  @@ "africa" :> <<"a", "f", "r", "i", "c", "a">>
  @@ "asia" :> <<"a", "s", "i", "a">>
  @@ "europe" :> <<"e", "u", "r", "o", "p", "e">>
  @@ "americas" :> <<"a", "m", "e", "r", "i", "c", "a", "s">>
  @@ "oceania" :> <<"o", "c", "e", "a", "n", "i", "a">>
  @@ "wildfire" :> <<"w", "i", "l", "d", "f", "i", "r", "e">>
  @@ "fire" :> <<"f", "i", "r", "e">>
  @@ "drought" :> <<"d", "r", "o", "u", "g", "h", "t">>
  @@ "vegetation" :> <<"v", "e", "g", "e", "t", "a", "t", "i", "o", "n">>
  @@ "carbon" :> <<"c", "a", "r", "b", "o", "n">>
  @@ "degradation" :> <<"d", "e", "g", "r", "a", "d", "a", "t", "i", "o", "n">>
  @@ "productivity" :> <<"p", "r", "o", "d", "u", "c", "t", "i", "v", "i", "t", "y">>
  @@ "law" :> <<"l", "a", "w">>
  @@ "act" :> <<"a", "c", "t">>
  @@ "regulation" :> <<"r", "e", "g", "u", "l", "a", "t", "i", "o", "n">>
  @@ "legislation" :> <<"l", "e", "g", "i", "s", "l", "a", "t", "i", "o", "n">>
  @@ "U+6CD5U+89C4" :> <<"U+6CD5", "U+89C4">>
  @@ "U+6761U+4F8B" :> <<"U+6761", "U+4F8B">>
  @@ "U+7EC6U+5219" :> <<"U+7EC6", "U+5219">>
  @@ "commitment" :> <<"c", "o", "m", "m", "i", "t", "m", "e", "n", "t">>
  @@ "U+627FU+8BFA" :> <<"U+627F", "U+8BFA">>
  @@ "restore" :> <<"r", "e", "s", "t", "o", "r", "e">>
  @@ "restoration" :> <<"r", "e", "s", "t", "o", "r", "a", "t", "i", "o", "n">>
  @@ "region" :> <<"r", "e", "g", "i", "o", "n">>
  @@ "by region" :> <<"b", "y", " ", "r", "e", "g", "i", "o", "n">>
  @@ "U+5730U+533A" :> <<"U+5730", "U+533A">>
  @@ "U+533AU+57DF" :> <<"U+533A", "U+57DF">>
  @@ "country" :> <<"c", "o", "u", "n", "t", "r", "y">>
  @@ "by country" :> <<"b", "y", " ", "c", "o", "u", "n", "t", "r", "y">>
  @@ "U+56FDU+5BB6" :> <<"U+56FD", "U+5BB6">>
  @@ "last" :> <<"l", "a", "s", "t">>
  @@ "years" :> <<"y", "e", "a", "r", "s">>
  @@ "U+6700U+8FD1" :> <<"U+6700", "U+8FD1">>
  @@ "U+5E74" :> <<"U+5E74">>
  @@ "-" :> <<"-">>
  @@ " " :> <<" ">>
  @@ "Saudi" :> <<"S", "a", "u", "d", "i">>
  @@ "KSA" :> <<"K", "S", "A">>
  @@ "MENA" :> <<"M", "E", "N", "A">>
  @@ "Africa" :> <<"A", "f", "r", "i", "c", "a">>
  @@ "impact" :> <<"i", "m", "p", "a", "c", "t">>
  @@ "commitments" :> <<"c", "o", "m", "m", "i", "t", "m", "e", "n", "t", "s">>
  @@ "2015-2020" :> <<"2", "0", "1", "5", "-", "2", "0", "2", "0">>
  @@ "2001 - 2017" :> <<"2", "0", "0", "1", " ", "-", " ", "2", "0", "1", "7">>
  @@ "2020" :> <<"2", "0", "2", "0">>
  @@ "last 5 years" :> <<"l", "a", "s", "t", " ", "5", " ", "y", "e", "a", "r", "s">>
  @@ "LAST 10 YEARS" :> <<"L", "A", "S", "T", " ", "1", "0", " ", "Y", "E", "A", "R", "S">>
  @@ "U+6700U+8FD15U+5E74" :> <<"U+6700", "U+8FD1", "5", "U+5E74">>
  @@ "show" :> <<"s", "h", "o", "w">>
  @@ "trend" :> <<"t", "r", "e", "n", "d">>
  @@ "logging" :> <<"l", "o", "g", "g", "i", "n", "g">>
  @@ "in" :> <<"i", "n">>
  @@ "U+6C99U+7279U+6CD5U+89C4" :> <<"U+6C99", "U+7279", "U+6CD5", "U+89C4">>
  @@ "last 10 years" :> <<"l", "a", "s", "t", " ", "1", "0", " ", "y", "e", "a", "r", "s">>
  @@ "2001-2017" :> <<"2", "0", "0", "1", "-", "2", "0", "1", "7">>

Phrases == {"Saudi", "KSA", "MENA", "Africa", "law", "impact", "restoration",
            "commitments", "by region", "by country", "drought", "wildfire",
            "2015-2020", "2001 - 2017", "2020", "last 5 years",
            "LAST 10 YEARS", "U+6700U+8FD15U+5E74"}

\* router_intent.py:128-136
TestCases == {<<"show", "Saudi", "wildfire", "trend">>,
              <<"MENA", "restoration", "commitments", "by region">>,
              <<"Saudi", "commitments", "by country">>,
              <<"Saudi", "logging", "law", "2020">>,
              <<"drought", "in", "KSA", "2015-2020">>,
              <<"U+6C99U+7279U+6CD5U+89C4">>,
              <<"restoration", "by region">>}

Queries ==
  TestCases \cup UNION {[1..n -> Phrases] : n \in 0..MaxPhrases}

\* The text of a query: its phrases separated by one space.
RECURSIVE Text(_)
Text(q) ==
  IF q = <<>> THEN <<>>
  ELSE IF Len(q) = 1 THEN Chars[q[1]]
  ELSE Chars[q[1]] \o Chars[" "] \o Text(Tail(q))

UpperCase == <<"A", "B", "C", "D", "E", "F", "G", "H", "I", "J", "K", "L",
               "M", "N", "O", "P", "Q", "R", "S", "T", "U", "V", "W", "X",
               "Y", "Z">>
LowerCase == <<"a", "b", "c", "d", "e", "f", "g", "h", "i", "j", "k", "l",
               "m", "n", "o", "p", "q", "r", "s", "t", "u", "v", "w", "x",
               "y", "z">>

\* str.lower()
lower(text) ==
  [p \in 1..Len(text) |->
     IF \E n \in 1..26 : UpperCase[n] = text[p]
       THEN LowerCase[CHOOSE n \in 1..26 : UpperCase[n] = text[p]]
       ELSE text[p]]

\* text[p:].startswith(w)
StartsAt(text, p, w) ==
  /\ p + Len(w) - 1 <= Len(text)
  /\ SubSeq(text, p, p + Len(w) - 1) = w

\* w in text
Contains(text, w) == \E p \in 1..(Len(text) + 1) : StartsAt(text, p, w)

\* keyword in query_lower
In(keyword, query_lower) == Contains(query_lower, Chars[keyword])

\* \d and \s over the characters of the model
IsDigit(c) == c \in {"0", "1", "2", "3", "4", "5", "6", "7", "8", "9"}
IsSpace(c) == c = " "

\* the end of the longest run of \s (of \d) that starts at p
RECURSIVE SkipSpaces(_, _)
SkipSpaces(text, p) ==
  IF p <= Len(text) /\ IsSpace(text[p]) THEN SkipSpaces(text, p + 1) ELSE p

RECURSIVE SkipDigits(_, _)
SkipDigits(text, p) ==
  IF p <= Len(text) /\ IsDigit(text[p]) THEN SkipDigits(text, p + 1) ELSE p

\* \d{4} at p
FourDigits(text, p) ==
  /\ p + 3 <= Len(text)
  /\ \A r \in p..(p + 3) : IsDigit(text[r])

\* A match object: group 1 and group 2 (an unset group is the empty text).
NoMatch == [matched |-> FALSE, group1 |-> <<>>, group2 |-> <<>>]
Match(g1, g2) == [matched |-> TRUE, group1 |-> g1, group2 |-> g2]

\* Mutation of period_pattern: a single year is taken for a range.
period_pattern_mutant(text, p) ==
  IF FourDigits(text, p)
    THEN Match(SubSeq(text, p, p + 3), <<>>)
    ELSE NoMatch

\* router_intent.py:71  r"(\d{4})\s*-\s*(\d{4})" matched at position p
period_pattern(text, p) ==
  IF ~FourDigits(text, p) THEN NoMatch
  ELSE LET a == SkipSpaces(text, p + 4)
       IN  IF ~StartsAt(text, a, Chars["-"]) THEN NoMatch
           ELSE LET b == SkipSpaces(text, a + 1)
                IN  IF ~FourDigits(text, b) THEN NoMatch
                    ELSE Match(SubSeq(text, p, p + 3),
                               SubSeq(text, b, b + 3))

\* router_intent.py:76  r"last\s+(\d+)\s+years|..(\d+)." matched at position p
recent_pattern(text, p) ==
  IF StartsAt(text, p, Chars["last"])
    THEN LET a == SkipSpaces(text, p + 4)
             b == SkipDigits(text, a)
             c == SkipSpaces(text, b)
         IN  IF a > p + 4 /\ b > a /\ c > b
                  /\ StartsAt(text, c, Chars["years"])
               THEN Match(SubSeq(text, a, b - 1), <<>>)
               ELSE NoMatch
  ELSE IF StartsAt(text, p, Chars["U+6700U+8FD1"])
    THEN LET b == SkipDigits(text, p + 2)
         IN  IF b > p + 2 /\ StartsAt(text, b, Chars["U+5E74"])
               THEN Match(<<>>, SubSeq(text, p + 2, b - 1))
               ELSE NoMatch
  ELSE NoMatch

\* re.search takes the match at the leftmost position that has one
Leftmost(starts) == CHOOSE p \in starts : \A r \in starts : p <= r

\* router_intent.py:71  re.search(r"(\d{4})\s*-\s*(\d{4})", query)
period_match(query) ==
  LET starts == {p \in 1..Len(query) : period_pattern(query, p).matched}
  IN  IF starts = {} THEN NoMatch
      ELSE period_pattern(query, Leftmost(starts))

\* router_intent.py:76  re.search(r"last\s+(\d+)\s+years|..(\d+).", query_lower)
recent_match(query_lower) ==
  LET starts == {p \in 1..Len(query_lower) :
                   recent_pattern(query_lower, p).matched}
  IN  IF starts = {} THEN NoMatch
      ELSE recent_pattern(query_lower, Leftmost(starts))

\* for alias, value in table.items(): if alias in query_lower: ...; break
RECURSIVE FirstMatch(_, _, _)
FirstMatch(table, query_lower, default) ==
  IF table = <<>> THEN default
  ELSE IF In(table[1][1], query_lower) THEN table[1][2]
  ELSE FirstMatch(Tail(table), query_lower, default)

\* router_intent.py:31-36
country_aliases == <<
  <<"saudi", "Saudi Arabia">>,
  <<"ksa", "Saudi Arabia">>,
  <<"U+6C99U+7279", "Saudi Arabia">>,
  <<"saudi arabia", "Saudi Arabia">> >>

\* router_intent.py:49-62
region_aliases == <<
  <<"mena", "Middle East and North Africa">>,
  <<"middle east and north africa", "Middle East and North Africa">>,
  <<"middle east", "Middle East and North Africa">>,
  <<"north africa", "Middle East and North Africa">>,
  <<"sub-saharan africa", "Sub-Saharan Africa">>,
  <<"sub saharan africa", "Sub-Saharan Africa">>,
  <<"ssa", "Sub-Saharan Africa">>,
  <<"africa", "Sub-Saharan Africa">>,
  <<"asia", "Asia">>,
  <<"europe", "Europe">>,
  <<"americas", "Americas">>,
  <<"oceania", "Oceania">> >>

\* router_intent.py:82-90
indicator_keywords == <<
  <<"wildfire", "wildfires">>,
  <<"fire", "wildfires">>,
  <<"drought", "drought">>,
  <<"vegetation", "vegetation productivity">>,
  <<"carbon", "soil organic carbon">>,
  <<"degradation", "land degradation">>,
  <<"productivity", "vegetation productivity">> >>

\* router_intent.py:99, 105, 108, 109
law_keywords == {"law", "act", "regulation", "legislation", "U+6CD5U+89C4",
                 "U+6761U+4F8B", "U+7EC6U+5219"}
commitment_keywords == {"commitment", "U+627FU+8BFA", "restore",
                        "restoration"}
region_indicators == {"region", "by region", "U+5730U+533A", "U+533AU+57DF"}
country_indicators == {"country", "by country", "U+56FDU+5BB6"}

\* any(keyword in query_lower for keyword in keywords)
any(keywords, query_lower) == \E keyword \in keywords : In(keyword, query_lower)

\* Mutation of country_slot: no default country.
country_slot_mutant(query_lower) == FirstMatch(country_aliases, query_lower, "")

\* router_intent.py:38-45
country_slot(query_lower) ==
  LET country == FirstMatch(country_aliases, query_lower, "")
  IN  IF country = "" THEN "Saudi Arabia" ELSE country

\* router_intent.py:64-67
region_slot(query_lower) == FirstMatch(region_aliases, query_lower, "")

\* router_intent.py:92-95
indicator_slot(query_lower) == FirstMatch(indicator_keywords, query_lower, "")

\* Mutation of period_slot: the "last N years" pattern is tried first.
period_slot_mutant(query, query_lower) ==
  LET range == period_match(query)
      recent == recent_match(query_lower)
      years == IF recent.group1 # <<>> THEN recent.group1 ELSE recent.group2
  IN  IF recent.matched
        THEN Chars["last"] \o Chars[" "] \o years \o Chars[" "]
             \o Chars["years"]
      ELSE IF range.matched
        THEN range.group1 \o Chars["-"] \o range.group2
      ELSE <<>>

\* router_intent.py:69-79
period_slot(query, query_lower) ==
  LET range == period_match(query)
      recent == recent_match(query_lower)
      years == IF recent.group1 # <<>> THEN recent.group1 ELSE recent.group2
  IN  IF range.matched
        THEN range.group1 \o Chars["-"] \o range.group2
      ELSE IF recent.matched
        THEN Chars["last"] \o Chars[" "] \o years \o Chars[" "]
             \o Chars["years"]
      ELSE <<>>

\* Mutation of intent_slot: the commitment keywords are tried before the law
\* keywords.
intent_slot_mutant(query_lower) ==
  IF any(commitment_keywords, query_lower)
    THEN IF any(region_indicators, query_lower) THEN "commit.region"
         ELSE "commit.country"
  ELSE IF any(law_keywords, query_lower) THEN "law.lookup"
  ELSE "ask.country"

\* router_intent.py:97-122
intent_slot(query_lower) ==
  IF any(law_keywords, query_lower) THEN "law.lookup"
  ELSE IF any(commitment_keywords, query_lower)
    THEN IF any(region_indicators, query_lower) THEN "commit.region"
         ELSE IF any(country_indicators, query_lower) THEN "commit.country"
         ELSE "commit.country"
  ELSE "ask.country"

\* router_intent.py:9-122
route(query) ==
  LET query_lower == lower(query)
  IN  [intent |-> intent_slot(query_lower),
       country |-> country_slot(query_lower),
       region |-> region_slot(query_lower),
       indicator |-> indicator_slot(query_lower),
       period |-> period_slot(query, query_lower)]

\* The slots before route() has returned.
NoSlots == [intent |-> "", country |-> "", region |-> "", indicator |-> "",
            period |-> <<>>]

\* op records a call on the vector store or the retriever: its name, its
\* arguments, the exception it raised ("" when it returned) and what it
\* returned.  No call has been made yet:
NoOp == [name |-> "none"]

(***************************************************************************)
(* State.                                                                  *)
(***************************************************************************)
VARIABLES
  bm25_stores,        \* app.state.bm25_stores: "None", "empty" or "loaded"
  rag_dense_enabled,  \* app.state.rag_dense_enabled
  RAG_DENSE_ENABLED,  \* os.getenv("RAG_DENSE_ENABLED") == "true"
  RAG_LLM_ENABLED,    \* os.getenv("RAG_LLM_ENABLED") == "true"
  disk,               \* the persisted index artifacts under INDEX_PATH
  vector_store,       \* the global FAISSVectorStore
  _index_loaded,      \* dense_retriever._index_loaded
  requests,           \* number of requests completed so far
  pc,                 \* where the request in flight is suspended
  intent,             \* create_sse_stream: local intent
  hits,               \* create_sse_stream: local hits
  i,                  \* create_sse_stream: disclaimer characters yielded
  ntok,               \* generation tokens received from stream_generate
  full_answer,        \* create_sse_stream: local full_answer
  events,             \* the events yielded to the client, in order
  raised,             \* the exceptions raised inside the request, in order
  handler_calls,      \* names of the lexical handlers invoked
  dense_calls,        \* number of dense_retriever.retrieve calls
  llm_calls,          \* calls of the generation collaborator
  db_messages,        \* db.save_message calls of the request
  retrieved_docs,     \* run_route_b: local retrieved_docs
  state,              \* the GraphState threaded through the graph
  visited,            \* graph nodes executed, in order
  response,           \* the body returned by POST /query
  query,              \* route(): the phrases of the text it is called with
  slots,              \* route(): the slots it returned
  op,                 \* the last call on the vector store or the retriever
  handler_raised,     \* the lexical handler of the request raised
  load_calls,         \* vector_store.load() calls made by the retriever
  request_top_k       \* non_stream_query: local top_k (0 outside a request)

config == <<bm25_stores, rag_dense_enabled, RAG_DENSE_ENABLED,
            RAG_LLM_ENABLED, disk>>
process == <<vector_store, _index_loaded>>
stream == <<intent, hits, i, ntok, full_answer, events>>
graph == <<retrieved_docs, state, visited, response, request_top_k>>
library == <<query, slots, op>>
history == <<handler_raised, load_calls>>
vars == <<config, process, requests, pc, stream, raised, handler_calls,
          dense_calls, llm_calls, db_messages, graph, library, history>>

NoState == [session_id |-> 0, message |-> {}, route |-> "", parsed |-> {}, answer |-> <<>>,
            citations |-> <<>>, source_links |-> {}, reason |-> "None"]
NoResponse == [status |-> 0]

\* The request-scoped variables before a request starts.
RequestReset ==
  /\ intent = "" /\ hits = <<>> /\ i = 0 /\ ntok = 0
  /\ full_answer = <<>> /\ events = <<>> /\ raised = <<>>
  /\ handler_calls = <<>> /\ dense_calls = 0 /\ llm_calls = <<>>
  /\ db_messages = <<>>
  /\ retrieved_docs = <<>>
  /\ state = NoState /\ visited = <<>> /\ response = NoResponse
  /\ handler_raised = FALSE
  /\ request_top_k = NoTopK

Init ==
  /\ bm25_stores \in {"None", "empty", "loaded"}
  /\ rag_dense_enabled \in BOOLEAN
  /\ RAG_DENSE_ENABLED \in BOOLEAN
  /\ RAG_LLM_ENABLED \in BOOLEAN
  /\ disk \in DiskImages
  /\ vector_store = EmptyStore
  /\ _index_loaded = FALSE
  /\ requests = 0
  /\ pc = "idle"
  /\ RequestReset
  /\ query = <<>>
  /\ slots = NoSlots
  /\ op = NoOp
  /\ load_calls = 0

\* The session id of the request in flight.
session_id == requests + 1

(***************************************************************************)
(* create_sse_stream (sse.py:27-340).  One action per resumption of the    *)
(* generator: it runs the code up to the next yield or to the end.         *)
(***************************************************************************)

\* sse.py:8-24  the event as the client sees it
format_event(event_type, data) == [type |-> event_type, data |-> data]

TokenEvent(t) == format_event("token", [t |-> t])

FinalEvent(answer, links, route_name) ==
  format_event("final", [session_id |-> session_id, answer |-> answer,
                         source_links |-> links, route |-> route_name,
                         latency_ms |-> 0])

\* The generator moves to newpc having yielded ev, raised exc, saved dbm and
\* called the generation collaborator as in llm.
Yield(newpc, ev, fa, n, exc, dbm, llm) ==
  /\ pc' = newpc
  /\ events' = events \o ev
  /\ full_answer' = fa
  /\ ntok' = n
  /\ raised' = raised \o exc
  /\ db_messages' = db_messages \o dbm
  /\ llm_calls' = llm_calls \o llm

\* Mutation of FallbackFailed: the exception of the fallback is not caught
\* and the generator ends without an event.
FallbackFailed_mutant(fa, n, excname, excmsg, llm) ==
  Yield("L340", <<>>, fa, n, <<excname>>, <<>>, llm)

\* sse.py:336-340  the fallback itself raised: save and yield the error
FallbackFailed(fa, n, excname, excmsg, llm) ==
  LET error_msg == <<"Error processing query: ", excmsg>>
  IN  Yield("L340", <<format_event("error", [msg |-> error_msg])>>, fa, n,
            <<excname>>, <<[role |-> "assistant", content |-> error_msg]>>,
            llm)

\* Mutation of NextToken: a token is yielded without being added to
\* full_answer.
NextToken_mutant(fa, n, llm) ==
  \/ /\ n < MaxTokens
     /\ Yield("L325", <<TokenEvent(GenToken(n + 1))>>, fa, n + 1, <<>>,
              <<>>, llm)
  \/ Yield("L329", <<FinalEvent(fa, {}, "B_fallback")>>, fa, n, <<>>,
           <<[role |-> "assistant", content |-> fa]>>, llm)
  \/ FallbackFailed(fa, n, "RuntimeError", "generation failed", llm)

\* sse.py:323-335  one step of `async for token in stream_generate(...)`:
\* the collaborator produces a token, stops, or raises.
NextToken(fa, n, llm) ==
  \/ /\ n < MaxTokens
     /\ Yield("L325", <<TokenEvent(GenToken(n + 1))>>,
              Append(fa, GenToken(n + 1)), n + 1, <<>>, <<>>, llm)
  \/ Yield("L329", <<FinalEvent(fa, {}, "B_fallback")>>, fa, n, <<>>,
           <<[role |-> "assistant", content |-> fa]>>, llm)
  \/ FallbackFailed(fa, n, "RuntimeError", "generation failed", llm)

\* sse.py:317-323  the guard, the import of the provider, the call
StartGeneration(fa) ==
  IF ~RAG_LLM_ENABLED
    THEN FallbackFailed(fa, 0, "ImportError", "LLM disabled", <<>>)
    ELSE NextToken(fa, 0, <<[fn |-> "stream_generate", docs |-> <<>>]>>)

\* Mutation of TryBodyRaises: the exception of the try body is reported as
\* an error event at once, without the fallback.
TryBodyRaises_mutant(dbm) ==
  /\ Yield("L340", <<format_event("error", [msg |-> <<"Error">>])>>, <<>>,
           0, <<"NameError">>, dbm, <<>>)
  /\ i' = 0

\* sse.py:106-117 raise NameError at 117; sse.py:305-314 catch it, restart
\* full_answer and yield the first character of the disclaimer.
TryBodyRaises(dbm) ==
  /\ Yield("L314", <<TokenEvent(disclaimer[1])>>, <<>>, 0, <<"NameError">>,
           dbm, <<>>)
  /\ i' = 1

\* Mutation of LexicalHit: a single hit does not short-circuit.
LexicalHit_mutant(hs) == Len(hs) > 1

\* sse.py:87  `if hits:`
LexicalHit(hs) == hs # <<>>

\* Mutation of DenseDisabled: the flag is read the wrong way round.
DenseDisabled_mutant(dense_enabled) == dense_enabled

\* sse.py:96  `if not dense_enabled:`
DenseDisabled(dense_enabled) == ~dense_enabled

\* Mutation of HandlerHits: the exception of a handler is reported as a hit.
HandlerHits_mutant(result) ==
  IF result.raises THEN <<[citation_path |-> "error"]>>
  ELSE MapHits(result.hits)

\* sse.py:67-85  the hits of the handler, [] when it raised, paths rewritten
HandlerHits(result) ==
  IF result.raises THEN <<>> ELSE MapHits(result.hits)

\* The texts of the streaming requests: one per intent, the first four test
\* cases of router_intent.py:128-131.
StreamQueries == {<<"show", "Saudi", "wildfire", "trend">>,
                  <<"MENA", "restoration", "commitments", "by region">>,
                  <<"Saudi", "commitments", "by country">>,
                  <<"Saudi", "logging", "law", "2020">>}

\* sse.py:65  slots = route_intent(message): each text of StreamQueries with
\* the slots route() returns for it
route_intent == {<<message, route(Text(message))>> : message \in StreamQueries}

\* Mutation of dispatch: the two commitment handlers are exchanged.
dispatch_mutant(it) ==
  CASE it = "ask.country" -> <<"handle_ask_country">>
    [] it = "commit.region" -> <<"handle_commit_country">>
    [] it = "commit.country" -> <<"handle_commit_region">>
    [] it = "law.lookup" -> <<"handle_law_lookup">>
    [] OTHER -> <<>>

\* sse.py:69-76  the handlers the if/elif chain calls for an intent
dispatch(it) ==
  CASE it = "ask.country" -> <<"handle_ask_country">>
    [] it = "commit.region" -> <<"handle_commit_region">>
    [] it = "commit.country" -> <<"handle_commit_country">>
    [] it = "law.lookup" -> <<"handle_law_lookup">>
    [] OTHER -> <<>>

\* First resumption: sse.py:44-101, and 106-117 + 305-314 when the lexical
\* tier does not short-circuit.
StreamStart ==
  /\ pc = "idle"
  /\ requests < MaxRequests
  /\ LET user == <<[role |-> "user", content |-> "message"]>>
     IN
     IF bm25_stores = "loaded"
       THEN \E routing \in route_intent, result \in HandlerResults :
              LET message == routing[1]
                  routed == routing[2]
                  it == routed.intent
                  hs == HandlerHits(result)
              IN  /\ query' = message
                  /\ slots' = routed
                  /\ intent' = it
                  /\ handler_calls' = handler_calls \o dispatch(it)
                  /\ handler_raised' = result.raises
                  /\ hits' = hs
                  /\ IF LexicalHit(hs)
                       THEN /\ Yield("L90",
                                 <<format_event("bm25",
                                     [intent |-> it, hits |-> hs])>>,
                                 <<>>, 0, <<>>, user, <<>>)
                            /\ i' = 0
                       ELSE IF DenseDisabled(rag_dense_enabled)
                         THEN /\ Yield("L99",
                                   <<format_event("bm25",
                                       [intent |-> it, hits |-> <<>>])>>,
                                   <<>>, 0, <<>>, user, <<>>)
                              /\ i' = 0
                         ELSE TryBodyRaises(user)
       ELSE /\ TryBodyRaises(user)
            /\ UNCHANGED <<intent, hits, handler_calls, handler_raised,
                           query, slots>>
  /\ UNCHANGED op
  /\ UNCHANGED load_calls
  /\ UNCHANGED <<config, process, requests, dense_calls, graph>>

\* Resumed after the bm25 event: sse.py:92 / sse.py:100
ResumeAfterBm25 ==
  /\ pc \in {"L90", "L99"}
  /\ Yield(IF pc = "L90" THEN "L92" ELSE "L100",
           <<format_event("done", "")>>, full_answer, ntok, <<>>, <<>>,
           <<>>)
  /\ UNCHANGED library
  /\ UNCHANGED history
  /\ UNCHANGED <<config, process, requests, intent, hits, i, handler_calls,
                 dense_calls, graph>>

\* Resumed after a disclaimer character: sse.py:315, then the next
\* character (314) or the generation block (317-340).
ResumeDisclaimer ==
  /\ pc = "L314"
  /\ LET fa == Append(full_answer, disclaimer[i])
     IN  IF i < Len(disclaimer)
           THEN /\ Yield("L314", <<TokenEvent(disclaimer[i + 1])>>, fa, ntok,
                         <<>>, <<>>, <<>>)
                /\ i' = i + 1
           ELSE /\ StartGeneration(fa)
                /\ i' = i
  /\ UNCHANGED library
  /\ UNCHANGED history
  /\ UNCHANGED <<config, process, requests, intent, hits, handler_calls,
                 dense_calls, graph>>

\* Resumed after a generation token: sse.py:323-335
ResumeToken ==
  /\ pc = "L325"
  /\ NextToken(full_answer, ntok, <<>>)
  /\ UNCHANGED library
  /\ UNCHANGED history
  /\ UNCHANGED <<config, process, requests, intent, hits, i, handler_calls,
                 dense_calls, graph>>

\* Resumed after done, final or error: the generator returns.
StreamReturn ==
  /\ pc \in {"L92", "L100", "L329", "L340"}
  /\ pc' = "stream_done"
  /\ UNCHANGED library
  /\ UNCHANGED history
  /\ UNCHANGED <<config, process, requests, stream, raised, handler_calls,
                 dense_calls, llm_calls, db_messages, graph>>

\* Mutation of Close: the exception thrown at a yield of the fallback block
\* is caught by the handler of sse.py:336, which saves and yields an error.
Close_mutant(at) ==
  IF at \in {"L314", "L325", "L329"}
    THEN [pc |-> "cancelled",
          events |-> <<format_event("error", [msg |-> <<"cancelled">>])>>,
          saved |-> <<[role |-> "assistant", content |-> <<"cancelled">>]>>]
    ELSE [pc |-> "cancelled", events |-> <<>>, saved |-> <<>>]

\* aclose() or a cancellation throws GeneratorExit (CancelledError) at the
\* yield the generator is suspended on.  Both are BaseExceptions: neither
\* `except Exception` of sse.py:305 and 336 catches them, and the function
\* has no finally block, so the generator ends there.
Close(at) == [pc |-> "cancelled", events |-> <<>>, saved |-> <<>>]

\* The client disconnects while the stream is suspended on a yield.
Cancel ==
  /\ pc \in {"L90", "L92", "L99", "L100", "L314", "L325", "L329", "L340"}
  /\ pc' = Close(pc).pc
  /\ events' = events \o Close(pc).events
  /\ db_messages' = db_messages \o Close(pc).saved
  /\ UNCHANGED library
  /\ UNCHANGED history
  /\ UNCHANGED <<config, process, requests, intent, hits, i, ntok,
                 full_answer, raised, handler_calls, dense_calls, llm_calls,
                 graph>>

(***************************************************************************)
(* POST /query (main.py:90-157) and the graph (router_graph.py).           *)
(***************************************************************************)

\* Keyword classes a message can contain (router_graph.py:30-41).
Messages == {{}, {"location"}, {"time", "indicator"}}

RouteHints == {"A", "B", "auto"}

\* router_graph.py:13-16
start_node(st) == st

\* router_graph.py:19-47  parsed gets one has_<class> key per class found
parse_query(st) == [st EXCEPT !.parsed = st.message]

\* Mutation of router: the route hint of the request is kept.
router_mutant(st) == st

\* router_graph.py:50-70
router(st) == [st EXCEPT !.route = "B"]

\* router_graph.py:208-221
handle_cannot_answer(st) ==
  [st EXCEPT !.answer = <<"I can't answer confidently with current sources. ",
                          "(Reason: ", st.reason, ")">>,
             !.source_links = {},
             !.citations = <<>>]

\* router_graph.py:224-240
format_output(st) ==
  [st EXCEPT !.answer = IF st.answer = <<>> THEN <<"No answer generated">>
                        ELSE st.answer]

\* router_graph.py:263-271
route_condition(st) ==
  IF st.route = "A" THEN "route_b"
  ELSE IF st.route = "cannot_answer" THEN "cannot_answer"
  ELSE "route_b"

\* router_graph.py:259-290  the edges: the node that runs after node n
NextNode(n, st) ==
  CASE n = "start" -> "parse_query"
    [] n = "parse_query" -> "router"
    [] n = "router" -> route_condition(st)
    [] n = "route_b" -> "format_output"
    [] n = "cannot_answer" -> "format_output"
    [] n = "format_output" -> "finish"

\* The nodes that only rewrite the state.
NodeFn(n, st) ==
  CASE n = "start" -> start_node(st)
    [] n = "parse_query" -> parse_query(st)
    [] n = "router" -> router(st)
    [] n = "cannot_answer" -> handle_cannot_answer(st)
    [] n = "format_output" -> format_output(st)

UrlSources == {"http://a"}

\* router_graph.py:181-188  the link of one document
SourceLink(doc) ==
  IF doc.source \in UrlSources THEN <<doc.source>>
  ELSE <<doc.source, "#page", doc.chunk_id>>

\* router_graph.py:176-197  list(set(source_links)) over the given documents
SourceLinks(docs) ==
  {SourceLink(docs[n]) : n \in {m \in 1..Len(docs) : docs[m].source # ""}}

\* router_graph.py:190-194
Citations(docs) ==
  LET withSource == SelectSeq(docs, LAMBDA d : d.source # "")
  IN  [n \in 1..Len(withSource) |->
         [source |-> withSource[n].source, page |-> withSource[n].chunk_id,
          score |-> withSource[n].score]]

\* main.py:121-130
initial_state(sid, q, route_hint) ==
  [session_id |-> sid, message |-> q, route |-> route_hint, parsed |-> {},
   answer |-> <<>>, citations |-> <<>>, source_links |-> {},
   reason |-> "None"]

\* The top_k parameter of a request: omitted, or a number.
RequestTopKs == {NoTopK, 1}

\* Mutation of effective_top_k: an omitted top_k stays unset.
effective_top_k_mutant(k) == k

\* main.py:110-112  `if top_k is None: top_k = int(os.getenv("TOP_K", "6"))`
effective_top_k(k) == IF k = NoTopK THEN default_top_k ELSE k

\* main.py:102-134  build initial_state, create the graph, start invoke
GraphStart ==
  /\ pc = "idle"
  /\ requests < MaxRequests
  /\ \E q \in Messages, route_hint \in RouteHints, k \in RequestTopKs :
       /\ request_top_k' = effective_top_k(k)
       /\ state' = initial_state(session_id, q, route_hint)
       /\ pc' = "start"
       /\ UNCHANGED <<retrieved_docs, response, raised, visited>>
  /\ UNCHANGED library
  /\ UNCHANGED history
  /\ UNCHANGED <<config, process, requests, stream, handler_calls,
                 dense_calls, llm_calls, db_messages>>

\* One node of the graph other than route_b runs, then its outgoing edge.
GraphStep ==
  /\ pc \in {"start", "parse_query", "router", "cannot_answer",
             "format_output"}
  /\ state' = NodeFn(pc, state)
  /\ visited' = Append(visited, pc)
  /\ pc' = NextNode(pc, state')
  /\ UNCHANGED library
  /\ UNCHANGED history
  /\ UNCHANGED <<config, process, requests, stream, raised, handler_calls,
                 dense_calls, llm_calls, db_messages, retrieved_docs,
                 response, request_top_k>>

\* What llm_provider.generate does: it returns a text or it raises.
GenOutcomes == {[raises |-> FALSE, answer |-> <<>>],
                [raises |-> FALSE, answer |-> <<"answer">>],
                [raises |-> TRUE, answer |-> <<>>]}

\* router_graph.py:157-173  generate is only called with documents that
\* passed the confidence check
Generate(high) ==
  IF high = <<>> THEN {[raises |-> FALSE, answer |-> <<>>]} ELSE GenOutcomes

\* Mutation of route_b_state: the links are collected from every retrieved
\* document, before the confidence check.
route_b_state_mutant(st, docs, gen) ==
  LET high == high_confidence_docs(docs)
  IN  IF docs = <<>>
        THEN [st EXCEPT !.route = "cannot_answer",
                        !.reason = "No relevant documents found"]
      ELSE IF high = <<>>
        THEN [st EXCEPT !.route = "cannot_answer",
                        !.reason = "low confidence scores"]
      ELSE IF gen.raises
        THEN [st EXCEPT !.route = "cannot_answer",
                        !.reason = "RAG processing error"]
      ELSE [st EXCEPT !.answer = gen.answer,
                      !.source_links = SourceLinks(docs),
                      !.citations = Citations(high)]

\* router_graph.py:157-203  the state run_route_b returns for the documents
\* retrieved and the outcome of generate (called only past the two returns)
route_b_state(st, docs, gen) ==
  LET high == high_confidence_docs(docs)
  IN  IF docs = <<>>
        THEN [st EXCEPT !.route = "cannot_answer",
                        !.reason = "No relevant documents found"]
      ELSE IF high = <<>>
        THEN [st EXCEPT !.route = "cannot_answer",
                        !.reason = "low confidence scores"]
      ELSE IF gen.raises
        THEN [st EXCEPT !.route = "cannot_answer",
                        !.reason = "RAG processing error"]
      ELSE [st EXCEPT !.answer = gen.answer,
                      !.source_links = SourceLinks(high),
                      !.citations = Citations(high)]

\* router_graph.py:143-205  the route_b node
run_route_b ==
  /\ pc = "route_b"
  /\ \E embedOk \in BOOLEAN, qvec \in QueryVecs :
       LET r == retrieve(vector_store, _index_loaded, disk, embedOk, qvec,
                         graph_top_k)
           docs == r.docs
           high == high_confidence_docs(docs)
       IN  \E gen \in Generate(high) :
           /\ retrieved_docs' = docs
           /\ vector_store' = r.vs
           /\ _index_loaded' = r.loaded
           /\ dense_calls' = dense_calls + 1
           /\ load_calls' = load_calls + (IF r.load = "skipped" THEN 0 ELSE 1)
           /\ state' = route_b_state(state, docs, gen)
           /\ llm_calls' = IF high # <<>>
                             THEN Append(llm_calls,
                                         [fn |-> "generate", docs |-> high])
                             ELSE llm_calls
           /\ raised' = IF high # <<>> /\ gen.raises
                          THEN Append(raised, "RuntimeError")
                          ELSE raised
  /\ visited' = Append(visited, "route_b")
  /\ pc' = NextNode("route_b", state')
  /\ UNCHANGED library
  /\ UNCHANGED handler_raised
  /\ UNCHANGED <<config, requests, stream, handler_calls, db_messages,
                 response, request_top_k>>

\* main.py:140-146
QueryResponse(final_state) ==
  [status |-> 200, session_id |-> final_state.session_id,
   answer |-> final_state.answer,
   source_links |-> final_state.source_links,
   route |-> final_state.route, latency_ms |-> 0]

\* main.py:136-152  the response built from final_state
Respond ==
  /\ pc = "finish"
  /\ response' = QueryResponse(state)
  /\ pc' = "graph_done"
  /\ UNCHANGED library
  /\ UNCHANGED history
  /\ UNCHANGED <<config, process, requests, stream, raised, handler_calls,
                 dense_calls, llm_calls, db_messages, retrieved_docs, state,
                 visited, request_top_k>>

\* The request is over; the next one starts from fresh request state.
Finish ==
  /\ pc \in {"stream_done", "cancelled", "graph_done"}
  /\ pc' = "idle"
  /\ requests' = requests + 1
  /\ intent' = "" /\ hits' = <<>> /\ i' = 0 /\ ntok' = 0
  /\ full_answer' = <<>> /\ events' = <<>> /\ raised' = <<>>
  /\ handler_calls' = <<>> /\ dense_calls' = 0 /\ llm_calls' = <<>>
  /\ db_messages' = <<>>
  /\ retrieved_docs' = <<>>
  /\ state' = NoState /\ visited' = <<>> /\ response' = NoResponse
  /\ handler_raised' = FALSE
  /\ request_top_k' = NoTopK
  /\ query' = <<>> /\ slots' = NoSlots
  /\ UNCHANGED op
  /\ UNCHANGED load_calls
  /\ UNCHANGED <<config, process>>

Next ==
  \/ StreamStart
  \/ ResumeAfterBm25
  \/ ResumeDisclaimer
  \/ ResumeToken
  \/ StreamReturn
  \/ Cancel
  \/ GraphStart
  \/ GraphStep
  \/ run_route_b
  \/ Respond
  \/ Finish

Spec == Init /\ [][Next]_vars

(***************************************************************************)
(* route() on its own: the text is drawn from Queries, the one action is   *)
(* the call.  The service is at rest and stays so.                         *)
(***************************************************************************)
AtRest ==
  /\ bm25_stores = "None"
  /\ rag_dense_enabled = FALSE
  /\ RAG_DENSE_ENABLED = FALSE
  /\ RAG_LLM_ENABLED = FALSE
  /\ vector_store = EmptyStore
  /\ _index_loaded = FALSE
  /\ requests = 0
  /\ pc = "idle"
  /\ RequestReset
  /\ load_calls = 0

RouteInit ==
  /\ AtRest
  /\ disk = NoDisk
  /\ query \in Queries
  /\ slots = NoSlots
  /\ op = NoOp

\* router_intent.py:9-122
RouteCall ==
  /\ slots = NoSlots
  /\ slots' = route(Text(query))
  /\ UNCHANGED <<query, op, config, process, requests, pc, stream, raised,
                 handler_calls, dense_calls, llm_calls, db_messages, graph,
                 history>>

RouteNext == RouteCall

RouteSpec == RouteInit /\ [][RouteNext]_vars

(***************************************************************************)
(* The vector store and the retriever on their own: any sequence of calls  *)
(* of initialize_index, add_vectors, search, save, load and retrieve, over *)
(* artifacts that are missing, unreadable, consistent or inconsistent.     *)
(***************************************************************************)
TopKs == 1..(MaxVecs + 1)

\* The argument pairs of add_vectors: equal and different counts.
Batches ==
  {<< <<<<10, 0>>>>, <<[source |-> "http://a", chunk_id |-> 1]>> >>,
   << <<<<3, 0>>>>, <<[source |-> "doc.pdf", chunk_id |-> 2]>> >>,
   << <<>>, <<>> >>,
   << <<<<10, 0>>>>, <<>> >>,
   << <<>>, <<[source |-> "http://a", chunk_id |-> 1]>> >>,
   << <<<<3, 0>>, <<10, 0>>>>,
      <<[source |-> "doc.pdf", chunk_id |-> 2]>> >>}

\* Artifacts found under INDEX_PATH at start: nothing, or an index of two
\* vectors with two metadata entries or one, and an info record with the
\* dimension of the index or another one, at most one of the three files
\* being missing or unreadable.
StoreDisks ==
  {NoDisk} \cup
  {[DiskImage(<<<<3, 0>>, <<10, 0>>>>, c[1])
      EXCEPT !.info.dimension = c[2], !.index_file = f[1],
             !.metadata_file = f[2], !.info_file = f[3]] :
     c \in {<< <<[source |-> "doc.pdf", chunk_id |-> 2],
                 [source |-> "http://a", chunk_id |-> 1]>>, Dim >>,
            << <<[source |-> "doc.pdf", chunk_id |-> 2]>>, Dim >>,
            << <<[source |-> "doc.pdf", chunk_id |-> 2],
                 [source |-> "http://a", chunk_id |-> 1]>>, Dim + 1 >>},
     f \in {g \in FileStatus \X FileStatus \X FileStatus :
              Cardinality({n \in 1..3 : g[n] # "ok"}) <= 1}}

StoreInit ==
  /\ AtRest
  /\ query = <<>>
  /\ slots = NoSlots
  /\ op = NoOp
  /\ disk \in StoreDisks

StoreFrame ==
  UNCHANGED <<query, slots, bm25_stores, rag_dense_enabled,
              RAG_DENSE_ENABLED, RAG_LLM_ENABLED, requests, pc, stream,
              raised, handler_calls, dense_calls, llm_calls, db_messages,
              graph, handler_raised>>

\* vectorstore.py:22-28
initialize_index ==
  /\ \E dimension \in {Dim} :
       vector_store' = [has_index |-> TRUE, vectors |-> <<>>,
                        metadata |-> <<>>, dimension |-> dimension]
  /\ op' = [name |-> "initialize_index"]
  /\ UNCHANGED <<disk, _index_loaded>>
  /\ UNCHANGED load_calls
  /\ StoreFrame

\* Mutation of AddVectors: the metadata is stored before the counts are
\* compared.
AddVectors_mutant(vs, vectors, metadata_list) ==
  IF ~vs.has_index
    THEN [raised |-> "RuntimeError", vs |-> vs]
  ELSE IF Len(vectors) # Len(metadata_list)
    THEN [raised |-> "ValueError",
          vs |-> [vs EXCEPT !.metadata = @ \o metadata_list]]
  ELSE [raised |-> "",
        vs |-> [vs EXCEPT !.vectors = @ \o vectors,
                          !.metadata = @ \o metadata_list]]

\* vectorstore.py:30-50  the exception raised and the store afterwards
AddVectors(vs, vectors, metadata_list) ==
  IF ~vs.has_index
    THEN [raised |-> "RuntimeError", vs |-> vs]
  ELSE IF Len(vectors) # Len(metadata_list)
    THEN [raised |-> "ValueError", vs |-> vs]
  ELSE [raised |-> "",
        vs |-> [vs EXCEPT !.vectors = @ \o vectors,
                          !.metadata = @ \o metadata_list]]

\* vectorstore.py:30-50
add_vectors ==
  /\ \E b \in Batches :
       /\ AddVectors(vector_store, b[1], b[2]).raised = "" =>
            /\ Len(vector_store.vectors) + Len(b[1]) <= MaxVecs
            /\ Len(vector_store.metadata) + Len(b[2]) <= MaxVecs
       /\ vector_store' = AddVectors(vector_store, b[1], b[2]).vs
       /\ op' = [name |-> "add_vectors", vectors |-> b[1],
                 metadata_list |-> b[2],
                 raised |-> AddVectors(vector_store, b[1], b[2]).raised]
  /\ UNCHANGED <<disk, _index_loaded>>
  /\ UNCHANGED load_calls
  /\ StoreFrame

\* vectorstore.py:52-79
search_call ==
  /\ \E query_vector \in QueryVecs, top_k \in TopKs :
       /\ op' = [name |-> "search", query_vector |-> query_vector,
                 top_k |-> top_k,
                 docs |-> search(vector_store, query_vector, top_k)]
       /\ vector_store' = search_store(vector_store, query_vector, top_k)
  /\ UNCHANGED <<disk, _index_loaded>>
  /\ UNCHANGED load_calls
  /\ StoreFrame

\* vectorstore.py:81-102
save ==
  /\ IF ~vector_store.has_index
       THEN /\ op' = [name |-> "save", raised |-> "RuntimeError"]
            /\ UNCHANGED disk
       ELSE /\ op' = [name |-> "save", raised |-> ""]
            /\ disk' = [DiskImage(vector_store.vectors,
                                  vector_store.metadata)
                          EXCEPT !.info.dimension = vector_store.dimension]
  /\ UNCHANGED <<vector_store, _index_loaded>>
  /\ UNCHANGED load_calls
  /\ StoreFrame

\* vectorstore.py:104-136
load ==
  /\ vector_store' = Load(vector_store, disk).vs
  /\ op' = [name |-> "load", ok |-> Load(vector_store, disk).ok,
            after_save |-> (op.name = "save" /\ op.raised = "")]
  /\ UNCHANGED <<disk, _index_loaded>>
  /\ UNCHANGED load_calls
  /\ StoreFrame

\* retriever.py:23-75
retrieve_call ==
  /\ \E embedOk \in BOOLEAN, query_vector \in QueryVecs,
        top_k \in {graph_top_k} :
       LET r == retrieve(vector_store, _index_loaded, disk, embedOk,
                         query_vector, top_k)
       IN  /\ vector_store' = r.vs
           /\ _index_loaded' = r.loaded
           /\ load_calls' = load_calls + (IF r.load = "skipped" THEN 0 ELSE 1)
           /\ op' = [name |-> "retrieve", query_vector |-> query_vector,
                     top_k |-> top_k, raised |-> "", docs |-> r.docs,
                     load |-> r.load,
                     embed |-> IF ~r.embedded THEN "skipped"
                               ELSE IF embedOk THEN "ok" ELSE "failed"]
  /\ UNCHANGED disk
  /\ StoreFrame

StoreNext ==
  \/ initialize_index
  \/ add_vectors
  \/ search_call
  \/ save
  \/ load
  \/ retrieve_call

StoreSpec == StoreInit /\ [][StoreNext]_vars

(***************************************************************************)
(* Vocabulary of the properties.                                           *)
(***************************************************************************)
StreamSuspended == {"L90", "L92", "L99", "L100", "L314", "L325", "L329",
                    "L340"}
StreamPcs == StreamSuspended \cup {"stream_done"}
GraphPcs == {"start", "parse_query", "router", "route_b", "cannot_answer",
             "format_output", "finish", "graph_done"}

EventTypes == [n \in 1..Len(events) |-> events[n].type]
Count(type) == Cardinality({n \in 1..Len(events) : events[n].type = type})
LastType == events[Len(events)].type
TerminalTypes == {"done", "final", "error"}

\* s is a prefix of t
IsPrefix(s, t) == Len(s) <= Len(t) /\ \A n \in 1..Len(s) : s[n] = t[n]

\* The token texts of the stream, in emission order.
TokenTexts ==
  LET toks == SelectSeq(events, LAMBDA e : e.type = "token")
  IN  [n \in 1..Len(toks) |-> toks[n].data.t]

\* Some lexical handler ran and the request has no hits.
LexicalMiss == handler_calls # <<>> /\ hits = <<>>

(***************************************************************************)
(* C1.  When the dispatched lexical handler returns at least one hit, the  *)
(* stream is exactly one bm25 event (carrying those hits) followed by one  *)
(* done event, with no token, final or error event, and neither the dense  *)
(* retriever nor a generation collaborator is invoked in that request.     *)
(***************************************************************************)
C1_LexicalHitShortCircuit ==
  (pc \in StreamPcs /\ hits # <<>>) =>
     /\ IsPrefix(EventTypes, <<"bm25", "done">>)
     /\ events # <<>>
     /\ events[1].data.hits = hits
     /\ pc = "stream_done" => EventTypes = <<"bm25", "done">>
     /\ dense_calls = 0
     /\ llm_calls = <<>>
     /\ raised = <<>>

C1_Witness ==
  /\ pc = "stream_done"
  /\ Len(hits) = 1
  /\ rag_dense_enabled
  /\ RAG_LLM_ENABLED
  /\ EventTypes = <<"bm25", "done">>

(***************************************************************************)
(* C2.  Every stream ends with a terminal event (done, final or error):    *)
(* a finished stream is non-empty and its last event is terminal, nothing  *)
(* follows a terminal event, and a suspended stream can always be resumed  *)
(* (it never hangs between events), in every configuration of lexical      *)
(* stores, dense flags, index and generation.                              *)
(***************************************************************************)
C2_StreamEndsWithTerminalEvent ==
  /\ pc = "stream_done" =>
       /\ events # <<>>
       /\ LastType \in TerminalTypes
       /\ \A n \in 1..(Len(events) - 1) :
            events[n].type \notin TerminalTypes
  /\ pc \in StreamSuspended =>
       ENABLED (ResumeAfterBm25 \/ ResumeDisclaimer \/ ResumeToken
                  \/ StreamReturn)
  /\ pc \in {"L92", "L100", "L329", "L340"} <=>
       (pc \in StreamSuspended /\ events # <<>>
          /\ LastType \in TerminalTypes)

C2_Witness ==
  /\ pc = "stream_done"
  /\ bm25_stores = "None"
  /\ ~RAG_LLM_ENABLED
  /\ LastType = "error"

(***************************************************************************)
(* C3.  When a lexical handler ran and returned no hits (or raised) and    *)
(* dense retrieval is disabled (app.state.rag_dense_enabled is false), the *)
(* stream is exactly one bm25 event with an empty hits list followed by    *)
(* one done event, and no generation call is made.                         *)
(***************************************************************************)
C3_LexicalMissDenseDisabled ==
  (pc \in StreamPcs /\ LexicalMiss /\ ~rag_dense_enabled) =>
     /\ IsPrefix(EventTypes, <<"bm25", "done">>)
     /\ events # <<>>
     /\ events[1].data.hits = <<>>
     /\ events[1].data.intent = intent
     /\ pc = "stream_done" => EventTypes = <<"bm25", "done">>
     /\ llm_calls = <<>>

C3_Witness ==
  /\ pc = "stream_done"
  /\ LexicalMiss
  /\ ~rag_dense_enabled
  /\ RAG_LLM_ENABLED
  /\ EventTypes = <<"bm25", "done">>

(***************************************************************************)
(* C4.  Whenever dense retrieval is disabled process-wide, no streaming    *)
(* request invokes the generation collaborator, and the request ends with  *)
(* an explicit empty/placeholder response rather than an error event.      *)
(* The code breaks this: without lexical stores the check of sse.py:96 is  *)
(* skipped, sse.py:117 raises NameError, and the exception fallback runs   *)
(* generation (or yields an error event when generation is disabled).      *)
(***************************************************************************)
C4_DenseDisabledNoGeneration ==
  (pc \in StreamPcs /\ ~rag_dense_enabled /\ ~RAG_DENSE_ENABLED) =>
     /\ llm_calls = <<>>
     /\ Count("error") = 0

(***************************************************************************)
(* C5.  Confidence gate: the documents passed to grounded generation are   *)
(* exactly the retrieved documents whose score is strictly greater than    *)
(* 0.3, in retrieval order; grounded generation is called if and only if   *)
(* that filtered list is non-empty; otherwise the request takes its        *)
(* fallback (route cannot_answer in the graph, B_fallback in the stream).  *)
(***************************************************************************)
Grounded(call) == call.fn \in {"generate", "generate_stream"}

AboveThreshold == SelectSeq(retrieved_docs, LAMBDA d : d.score > 30)

GateEvaluated ==
  \/ pc \in {"format_output", "finish", "graph_done"}
  \/ pc = "stream_done"

C5_ConfidenceGate ==
  /\ \A n \in 1..Len(llm_calls) :
       Grounded(llm_calls[n]) => /\ llm_calls[n].docs = AboveThreshold
                                 /\ llm_calls[n].docs # <<>>
  /\ GateEvaluated =>
       /\ Cardinality({n \in 1..Len(llm_calls) : Grounded(llm_calls[n])})
            = IF AboveThreshold # <<>> THEN 1 ELSE 0
       /\ (AboveThreshold = <<>> /\ pc \in GraphPcs) =>
            state.route = "cannot_answer"
       /\ (AboveThreshold = <<>> /\ pc = "stream_done"
             /\ LastType = "final") =>
            events[Len(events)].data.route = "B_fallback"

\* Two documents retrieved, one exactly at the threshold and excluded, one
\* above it and passed to generation.
C5_Witness ==
  /\ pc = "graph_done"
  /\ Len(retrieved_docs) = 2
  /\ \E n \in 1..2 : retrieved_docs[n].score = 30
  /\ Len(llm_calls) = 1
  /\ Len(llm_calls[1].docs) = 1
  /\ llm_calls[1].docs[1].score = 100
  /\ state.route = "B"

(***************************************************************************)
(* C6.  In every stream at most one final event is emitted, it is the last *)
(* event, and every token event precedes it; a stream of the dense or      *)
(* generation paths (one that does not start with bm25) is zero or more    *)
(* token events followed by exactly one final event carrying session_id,   *)
(* answer, source_links, route and latency_ms.                             *)
(* The code breaks this: with generation disabled the stream is the        *)
(* disclaimer tokens followed by an error event, without a final event.    *)
(***************************************************************************)
TokensThenFinal ==
  /\ events # <<>>
  /\ LastType = "final"
  /\ \A n \in 1..(Len(events) - 1) : events[n].type = "token"
  /\ DOMAIN events[Len(events)].data =
       {"session_id", "answer", "source_links", "route", "latency_ms"}

C6_TokensThenOneFinal ==
  /\ Count("final") <= 1
  /\ Count("final") = 1 => LastType = "final"
  /\ (pc = "stream_done" /\ events[1].type # "bm25") => TokensThenFinal

(***************************************************************************)
(* C7.  When the lexical tier misses, dense retrieval is enabled and the   *)
(* index is missing or empty, the stream is the disclaimer, one character  *)
(* per token event in order, then the fallback generation tokens in        *)
(* production order, then exactly one final event with route B_fallback.   *)
(* The code breaks this when generation is disabled: the stream then ends  *)
(* with an error event (see C8).                                           *)
(***************************************************************************)
DisclaimerThenGeneration ==
  /\ IsPrefix(disclaimer, TokenTexts)
  /\ \A n \in 1..(Len(TokenTexts) - Len(disclaimer)) :
       TokenTexts[Len(disclaimer) + n] = GenToken(n)

C7_EmptyIndexFallbackStream ==
  (/\ pc = "stream_done"
   /\ LexicalMiss
   /\ rag_dense_enabled
   /\ (disk.index_file = "missing" \/ disk.vectors = <<>>)) =>
     /\ DisclaimerThenGeneration
     /\ TokensThenFinal
     /\ events[Len(events)].data.route = "B_fallback"

(***************************************************************************)
(* C8.  On the generation-fallback path, if generation is disabled, the    *)
(* stream substitutes a placeholder after the disclaimer and ends with a   *)
(* final event, without calling the generation collaborator and without    *)
(* an error event.                                                         *)
(* The code breaks this: the guard of sse.py:319-321 raises                *)
(* ImportError("LLM disabled"), which the handler of sse.py:336-340 turns  *)
(* into an error event; no final event is emitted.                         *)
(***************************************************************************)
C8_GenerationDisabledPlaceholder ==
  (pc = "stream_done" /\ raised # <<>> /\ ~RAG_LLM_ENABLED) =>
     /\ llm_calls = <<>>
     /\ IsPrefix(disclaimer, TokenTexts)
     /\ LastType = "final"
     /\ Count("error") = 0

C10_GenerationLastResort ==
  llm_calls # <<>> =>
     /\ RAG_LLM_ENABLED
     /\ handler_calls # <<>>
     /\ dense_calls > 0

(***************************************************************************)
(* C11.  For the same query and the same subsystem state, POST /query      *)
(* returns a body whose source_links and route (and answer, up to the text *)
(* the generation collaborator produces) equal those of the final event of *)
(* the stream.  Stated for a finished stream: the body that graph.invoke   *)
(* yields from the same vector store, retriever flag and index artifacts,  *)
(* for the retrieval and generation outcomes of the request, carries the   *)
(* route and source_links of the final event.                              *)
(* The code breaks this: the stream only ever ends with route B_fallback,  *)
(* the graph only with B or cannot_answer.                                 *)
(***************************************************************************)
\* graph.invoke(initial_state) followed by main.py:140-146, as a function of
\* the process state and of what the collaborators return.
PostQuery(vs, loaded, dsk, q, route_hint, embedOk, qvec, gen) ==
  LET st1 == router(parse_query(start_node(
                 initial_state(session_id, q, route_hint))))
      st2 == IF route_condition(st1) = "route_b"
               THEN route_b_state(st1,
                      retrieve(vs, loaded, dsk, embedOk, qvec,
                               graph_top_k).docs, gen)
               ELSE handle_cannot_answer(st1)
  IN  QueryResponse(format_output(st2))

C11_PostEqualsStreamFinal ==
  (pc = "stream_done" /\ LastType = "final") =>
     \A q \in Messages, route_hint \in RouteHints, embedOk \in BOOLEAN,
        qvec \in QueryVecs :
       \E gen \in GenOutcomes :
         LET body == PostQuery(vector_store, _index_loaded, disk, q,
                               route_hint, embedOk, qvec, gen)
             final == events[Len(events)].data
         IN  /\ body.route = final.route
             /\ body.source_links = final.source_links

(***************************************************************************)
(* Vocabulary of the properties of route(): what each phrase of a query    *)
(* carries, read off the phrase itself and not off the matching code.      *)
(***************************************************************************)
Has(q, phrases) == \E n \in 1..Len(q) : q[n] \in phrases

LawPhrases == {"law", "impact", "U+6C99U+7279U+6CD5U+89C4"}
CommitmentPhrases == {"restoration", "commitments"}
RegionWording == {"by region"}
CountryPhrases == {"Saudi", "KSA", "U+6C99U+7279U+6CD5U+89C4"}
RegionPhrases == {"MENA", "Africa"}
IndicatorPhrases == {"drought", "wildfire"}
RangeOf == ("2015-2020" :> "2015-2020") @@ ("2001 - 2017" :> "2001-2017")
RecentOf == ("last 5 years" :> "last 5 years")
            @@ ("LAST 10 YEARS" :> "last 10 years")
            @@ ("U+6700U+8FD15U+5E74" :> "last 5 years")
Returned == slots # NoSlots

(***************************************************************************)
(* C12.  Intent precedence of route(): a text with a law keyword is        *)
(* law.lookup even when it also has commitment keywords; otherwise a text  *)
(* with a commitment or restoration keyword is commit.region when it has   *)
(* region wording and commit.country when it has not; otherwise the intent *)
(* is ask.country.  "MENA restoration commitments by region" is            *)
(* commit.region with region "Middle East and North Africa".               *)
(***************************************************************************)
C12_IntentPrecedence ==
  Returned =>
    /\ slots.intent =
         IF Has(query, LawPhrases) THEN "law.lookup"
         ELSE IF Has(query, CommitmentPhrases)
           THEN IF Has(query, RegionWording) THEN "commit.region"
                ELSE "commit.country"
         ELSE "ask.country"
    /\ query = <<"MENA", "restoration", "commitments", "by region">> =>
         /\ slots.intent = "commit.region"
         /\ slots.region = "Middle East and North Africa"

C12_Witness ==
  /\ Returned
  /\ Has(query, LawPhrases) /\ Has(query, CommitmentPhrases)
  /\ slots.intent = "law.lookup"

(***************************************************************************)
(* C13, as stated.  For "Saudi logging law 2020" route() returns intent    *)
(* law.lookup, country "Saudi Arabia" and period "2020".                   *)
(***************************************************************************)
SaudiLoggingLaw2020 == <<"Saudi", "logging", "law", "2020">>

C13_SaudiLoggingLawPeriod2020 ==
  (Returned /\ query = SaudiLoggingLaw2020) =>
    /\ slots.intent = "law.lookup"
    /\ slots.country = "Saudi Arabia"
    /\ slots.period = Chars["2020"]

(***************************************************************************)
(* C13, amended.  For "Saudi logging law 2020" route() returns intent      *)
(* law.lookup, country "Saudi Arabia" and the empty period: a single year  *)
(* is neither a YYYY-YYYY range nor a "last N years" phrase.               *)
(***************************************************************************)
C13_SaudiLoggingLawNoPeriod ==
  (Returned /\ query = SaudiLoggingLaw2020) =>
    /\ slots.intent = "law.lookup"
    /\ slots.country = "Saudi Arabia"
    /\ slots.period = <<>>

C13_Witness == Returned /\ query = SaudiLoggingLaw2020

(***************************************************************************)
(* C14.  Period extraction: a text with a YYYY-YYYY range has that range   *)
(* as its period, whatever "last N years" phrase it also has; otherwise a  *)
(* text with a "last N years" phrase (or its localized form) has the       *)
(* period "last N years"; otherwise the period is the empty string.        *)
(***************************************************************************)
C14_PeriodExtraction ==
  Returned =>
    IF Has(query, DOMAIN RangeOf)
      THEN \E n \in 1..Len(query) :
             /\ query[n] \in DOMAIN RangeOf
             /\ slots.period = Chars[RangeOf[query[n]]]
    ELSE IF Has(query, DOMAIN RecentOf)
      THEN \E n \in 1..Len(query) :
             /\ query[n] \in DOMAIN RecentOf
             /\ slots.period = Chars[RecentOf[query[n]]]
    ELSE slots.period = <<>>

C14_Witness ==
  /\ Returned
  /\ Len(query) = 2
  /\ query[1] \in DOMAIN RecentOf /\ query[2] \in DOMAIN RangeOf
  /\ slots.period = Chars[RangeOf[query[2]]]

C16_RetrieveEmptyOnFailure ==
  op.name = "retrieve" =>
    /\ op.raised = ""
    /\ (op.load = "failed" \/ op.embed = "failed") => op.docs = <<>>

(***************************************************************************)
(* C17.  FAISSVectorStore.load fails explicitly whenever one of the three  *)
(* artifacts is missing or the artifacts are inconsistent: the dimension   *)
(* of the info record differs from that of the index, or the number of     *)
(* metadata entries differs from the number of vectors.  Returning False   *)
(* is counted as failing explicitly.                                       *)
(* The code breaks this: load() compares nothing and returns True on       *)
(* inconsistent artifacts.                                                 *)
(***************************************************************************)
Missing(dsk) ==
  "missing" \in {dsk.index_file, dsk.metadata_file, dsk.info_file}

Inconsistent(dsk) ==
  /\ {dsk.index_file, dsk.metadata_file, dsk.info_file} = {"ok"}
  /\ \/ dsk.info.dimension # Dim
     \/ Len(dsk.metadata) # Len(dsk.vectors)

C17_LoadFailsExplicitly ==
  (op.name = "load" /\ (Missing(disk) \/ Inconsistent(disk))) => ~op.ok

(***************************************************************************)
(* C18.  Round trip: saving a non-empty index and loading it, into the     *)
(* same store or into a fresh one, yields the same vector count, the same  *)
(* dimension, the same metadata in the same positions and the same search  *)
(* results for every query vector and k.                                   *)
(***************************************************************************)
SameIndex(a, b) ==
  /\ a.has_index = b.has_index
  /\ Len(a.vectors) = Len(b.vectors)
  /\ a.dimension = b.dimension
  /\ a.metadata = b.metadata
  /\ \A query_vector \in QueryVecs, top_k \in TopKs :
       search(a, query_vector, top_k) = search(b, query_vector, top_k)

C18_SaveLoadRoundTrip ==
  [][(/\ op.name = "save" /\ op.raised = ""
      /\ vector_store.vectors # <<>>
      /\ op'.name = "load") =>
       /\ op'.ok
       /\ SameIndex(vector_store', vector_store)
       /\ SameIndex(Load(EmptyStore, disk).vs, vector_store)]_vars

C18_Witness ==
  /\ op.name = "load" /\ op.after_save /\ op.ok
  /\ Len(vector_store.vectors) = 2 /\ Len(vector_store.metadata) = 2
  /\ vector_store.metadata[1] # vector_store.metadata[2]

(***************************************************************************)
(* C19.  search(q, k) on an index of n vectors returns min(k, n) results   *)
(* in non-increasing order of inner product, equal scores in insertion     *)
(* order, each result the metadata of the entry it matches plus the score; *)
(* on an empty or uninitialized index it returns the empty list.           *)
(* The code breaks this on a store whose metadata list is shorter than its *)
(* index, which load() produces from inconsistent artifacts (see C17):     *)
(* the entries without metadata are dropped from the results.              *)
(***************************************************************************)
Ranked(vs, query_vector, docs, pos) ==
  /\ \A a, b \in 1..Len(docs) : a < b => pos[a] # pos[b]
  /\ \A a \in 1..Len(docs) :
       /\ pos[a] <= Len(vs.metadata)
       /\ docs[a] = [source |-> vs.metadata[pos[a]].source,
                     chunk_id |-> vs.metadata[pos[a]].chunk_id,
                     score |-> Dot(query_vector, vs.vectors[pos[a]])]
  /\ \A a, b \in 1..Len(docs) :
       a < b => \/ docs[a].score > docs[b].score
                \/ docs[a].score = docs[b].score /\ pos[a] < pos[b]
  /\ \A p \in 1..Len(vs.vectors) :
       (\A a \in 1..Len(docs) : pos[a] # p) =>
         \A a \in 1..Len(docs) :
           \/ docs[a].score > Dot(query_vector, vs.vectors[p])
           \/ docs[a].score = Dot(query_vector, vs.vectors[p]) /\ pos[a] < p

C19_SearchRanked ==
  op.name = "search" =>
    LET n == IF vector_store.has_index THEN Len(vector_store.vectors) ELSE 0
    IN  /\ Len(op.docs) = Min(op.top_k, n)
        /\ \E pos \in [1..Len(op.docs) -> 1..n] :
             Ranked(vector_store, op.query_vector, op.docs, pos)

(***************************************************************************)
(* C20, as stated.  add_vectors with a number of vectors different from    *)
(* the number of metadata entries fails with the size-mismatch error and   *)
(* leaves vectors and metadata unchanged; with equal counts it appends     *)
(* both in the same order.                                                 *)
(***************************************************************************)
Appended ==
  /\ op'.raised = ""
  /\ vector_store'.vectors = vector_store.vectors \o op'.vectors
  /\ vector_store'.metadata = vector_store.metadata \o op'.metadata_list
  /\ vector_store'.has_index = vector_store.has_index
  /\ vector_store'.dimension = vector_store.dimension

C20_AddVectorsSizeMismatch ==
  [][op'.name = "add_vectors" =>
       IF Len(op'.vectors) # Len(op'.metadata_list)
         THEN op'.raised = "ValueError" /\ vector_store' = vector_store
         ELSE Appended]_vars

(***************************************************************************)
(* C20, amended.  On an initialized index, add_vectors with different      *)
(* counts fails with the size-mismatch error and leaves vectors and        *)
(* metadata unchanged, and with equal counts appends both in the same      *)
(* order; on an uninitialized index it fails with the not-initialized      *)
(* error whatever the counts, and changes nothing.                         *)
(***************************************************************************)
C20_AddVectorsInitialized ==
  [][op'.name = "add_vectors" =>
       IF ~vector_store.has_index
         THEN op'.raised = "RuntimeError" /\ vector_store' = vector_store
       ELSE IF Len(op'.vectors) # Len(op'.metadata_list)
         THEN op'.raised = "ValueError" /\ vector_store' = vector_store
       ELSE Appended]_vars

C20_Witness ==
  /\ op.name = "add_vectors" /\ op.raised = "ValueError"
  /\ op.vectors # <<>> /\ op.metadata_list # <<>>
  /\ vector_store.has_index /\ vector_store.vectors # <<>>

LinkOf(d) ==
  IF d.source = "http://a" THEN <<d.source>>
  ELSE <<d.source, "#page", d.chunk_id>>

Survivors == {n \in 1..Len(retrieved_docs) : retrieved_docs[n].score > 30}
Rejected == {n \in 1..Len(retrieved_docs) : retrieved_docs[n].score <= 30}

RouteBDone == pc \in {"format_output", "finish", "graph_done"}

FallbackFinalsCarryNoLinks ==
  \A n \in 1..Len(events) :
    (events[n].type = "final" /\ events[n].data.route = "B_fallback") =>
      events[n].data.source_links = {}

(***************************************************************************)
(* C22, as stated.  In the grounded (route B) answer source_links are      *)
(* exactly the deduplicated links of the documents that passed the         *)
(* confidence gate, no link of a document with score <= 0.3 appears, and   *)
(* every B_fallback final event carries an empty source_links list.        *)
(***************************************************************************)
C22_NoLinkOfRejectedDocument ==
  /\ (RouteBDone /\ state.route = "B") =>
       /\ state.source_links = {LinkOf(retrieved_docs[n]) : n \in Survivors}
       /\ \A n \in Rejected :
            LinkOf(retrieved_docs[n]) \notin state.source_links
  /\ FallbackFinalsCarryNoLinks

(***************************************************************************)
(* C22, amended.  In the grounded (route B) answer source_links are        *)
(* exactly the deduplicated links of the documents that passed the         *)
(* confidence gate, so the link of a document with score <= 0.3 appears    *)
(* only when a document that passed has the same link; the body of the     *)
(* response carries these links; and every B_fallback final event carries  *)
(* an empty source_links list.                                             *)
(***************************************************************************)
C22_LinksOfSurvivors ==
  /\ (RouteBDone /\ state.route = "B") =>
       /\ state.source_links = {LinkOf(retrieved_docs[n]) : n \in Survivors}
       /\ \A n \in Rejected :
            LinkOf(retrieved_docs[n]) \in state.source_links =>
              \E m \in Survivors :
                LinkOf(retrieved_docs[m]) = LinkOf(retrieved_docs[n])
  /\ (pc = "graph_done" /\ state.route = "B") =>
       response.source_links = state.source_links
  /\ FallbackFinalsCarryNoLinks

\* A rejected document with a link of its own, which does not appear.
C22_Witness ==
  /\ pc = "graph_done" /\ response.route = "B"
  /\ Survivors = {1} /\ Rejected = {2}
  /\ LinkOf(retrieved_docs[2]) = <<"http://a">>
  /\ response.source_links = {<<"doc.pdf", "#page", 2>>}

(***************************************************************************)
(* C23.  A lexical handler that raises is treated as a lexical miss: the   *)
(* request has no hits, no error event reports the handler's exception,    *)
(* and the stream goes on as after an empty result: with dense retrieval   *)
(* disabled it is one bm25 event with empty hits and one done event; with  *)
(* dense retrieval enabled it has no bm25 event and starts the next tier,  *)
(* where an error event can only report the failure of the fallback        *)
(* generation.                                                             *)
(***************************************************************************)
C23_HandlerFailureIsMiss ==
  (pc \in StreamPcs \cup {"cancelled"} /\ handler_raised) =>
     /\ hits = <<>>
     /\ LexicalMiss
     /\ events # <<>>
     /\ IF ~rag_dense_enabled
          THEN /\ IsPrefix(EventTypes, <<"bm25", "done">>)
               /\ events[1].data = [intent |-> intent, hits |-> <<>>]
               /\ pc = "stream_done" => EventTypes = <<"bm25", "done">>
               /\ raised = <<>>
               /\ llm_calls = <<>>
          ELSE /\ Count("bm25") = 0
               /\ events[1] = TokenEvent(disclaimer[1])
               /\ raised[1] = "NameError"
               /\ \A n \in 1..Len(events) :
                    events[n].type = "error" =>
                      /\ Len(raised) = 2
                      /\ events[n].data.msg[2]
                           \in {"LLM disabled", "generation failed"}

C23_Witness ==
  /\ pc = "stream_done"
  /\ handler_raised
  /\ rag_dense_enabled
  /\ LastType = "final"
  /\ Count("token") = Len(disclaimer) + 1

(***************************************************************************)
(* C24.  When the client disconnects while the stream is suspended on a    *)
(* yield, the request produces nothing more: the step of the disconnect    *)
(* emits no event, saves no message and calls no collaborator, the         *)
(* exception fallback does not take it up, and the generator is never      *)
(* resumed afterwards.                                                     *)
(***************************************************************************)
C24_CancelStopsStream ==
  [][/\ (pc \in StreamSuspended /\ pc' = "cancelled") =>
          /\ events' = events
          /\ db_messages' = db_messages
          /\ llm_calls' = llm_calls
          /\ raised' = raised
          /\ dense_calls' = dense_calls
          /\ full_answer' = full_answer
     /\ pc = "cancelled" => (pc' = "idle" /\ events' = <<>>)]_vars

\* Disconnected after the first generation token.
C24_Witness ==
  /\ pc = "cancelled"
  /\ ntok = 1
  /\ LastType = "token"
  /\ Len(llm_calls) = 1
  /\ Count("final") = 0 /\ Count("error") = 0

(***************************************************************************)
(* C25.  retrieve checks both conditions before it searches: when, after   *)
(* the lazy load, the store has no index or the index holds no vector,     *)
(* it returns the empty list without calling the embedding provider (and   *)
(* so without searching); otherwise it calls the embedding provider.  A    *)
(* store with an index of zero vectors reports status "loaded" with        *)
(* total_vectors 0, a store without an index "not_initialized".            *)
(***************************************************************************)
C25_RetrieveChecksBoth ==
  /\ op.name = "retrieve" =>
       IF ~vector_store.has_index \/ Len(vector_store.vectors) = 0
         THEN op.docs = <<>> /\ op.embed = "skipped"
         ELSE op.embed \in {"ok", "failed"}
  /\ (vector_store.has_index /\ vector_store.vectors = <<>>) =>
       /\ get_stats(vector_store).status = "loaded"
       /\ get_stats(vector_store).total_vectors = 0
  /\ ~vector_store.has_index =>
       get_stats(vector_store).status = "not_initialized"

\* retrieve on an initialized index that holds no vector
C25_Witness ==
  /\ op.name = "retrieve"
  /\ vector_store.has_index /\ vector_store.vectors = <<>>
  /\ op.docs = <<>> /\ op.embed = "skipped"

(***************************************************************************)
(* C26.  In every state of the vector store reachable by a sequence of     *)
(* initialize_index, add_vectors (successful or failing), save and load,   *)
(* the number of vectors of the index equals the number of metadata        *)
(* entries.                                                                *)
(* The code breaks this: load() replaces the index and the metadata list   *)
(* from two files without comparing their lengths (see C17), and a load    *)
(* that fails at metadata.json leaves the new index with the old list.     *)
(***************************************************************************)
C26_MetadataAligned ==
  Len(vector_store.vectors) = Len(vector_store.metadata)

(***************************************************************************)
(* C27.  The graph, for every route_hint in {A, B, auto}, runs the route_b *)
(* node exactly once and no route_a node, always reaches format_output,    *)
(* and finishes with route B or cannot_answer, a non-empty answer, and a   *)
(* reason that is set if and only if the final route is cannot_answer.     *)
(***************************************************************************)
GraphFinished == pc \in {"finish", "graph_done"}

Times(node) == Cardinality({n \in 1..Len(visited) : visited[n] = node})

C27_GraphAlwaysRouteB ==
  /\ pc = "start" =>
       /\ state.route \in RouteHints
       /\ router(state).route = "B"
       /\ route_condition(router(state)) = "route_b"
  /\ Times("route_a") = 0
  /\ Times("route_b") <= 1
  /\ GraphFinished =>
       /\ Times("route_b") = 1
       /\ visited[Len(visited)] = "format_output"
       /\ state.route \in {"B", "cannot_answer"}
       /\ state.answer # <<>>
       /\ state.reason # "None" <=> state.route = "cannot_answer"
  /\ pc = "graph_done" =>
       /\ response.route = state.route
       /\ response.answer = state.answer

C27_Witness ==
  /\ pc = "graph_done"
  /\ visited = <<"start", "parse_query", "router", "route_b",
                 "format_output">>
  /\ response.route = "cannot_answer"
  /\ state.reason = "RAG processing error"

(***************************************************************************)
(* C28.  Whenever the graph finishes with route cannot_answer, the final   *)
(* answer is the message of handle_cannot_answer and contains the reason   *)
(* recorded by run_route_b.                                                *)
(* The code breaks this: the edge out of route_b goes to format_output,    *)
(* the cannot_answer node never runs, and the answer is the placeholder    *)
(* of format_output.                                                       *)
(***************************************************************************)
C28_CannotAnswerMessage ==
  (GraphFinished /\ state.route = "cannot_answer") =>
     /\ Times("cannot_answer") = 1
     /\ state.answer =
          <<"I can't answer confidently with current sources. ",
            "(Reason: ", state.reason, ")">>

(***************************************************************************)
(* C29.  Tokens already sent are never retracted: the answer of a final    *)
(* event is the concatenation, in emission order, of the texts of all the  *)
(* token events of the stream, also when the stream reached its final      *)
(* event through the exception fallback; the message saved for the         *)
(* assistant is that answer; and the disclaimer is streamed at most once.  *)
(***************************************************************************)
\* The positions of the token sequence at which the disclaimer starts.
DisclaimerStarts ==
  {n \in 1..Len(TokenTexts) :
     /\ n + Len(disclaimer) - 1 <= Len(TokenTexts)
     /\ SubSeq(TokenTexts, n, n + Len(disclaimer) - 1) = disclaimer}

C29_FinalAnswerIsTokens ==
  /\ \A n \in 1..Len(events) :
       events[n].type = "final" =>
         /\ events[n].data.answer = TokenTexts
         /\ db_messages[Len(db_messages)] =
              [role |-> "assistant", content |-> TokenTexts]
  /\ Cardinality(DisclaimerStarts) <= 1

\* The try body raised, the fallback streamed the disclaimer and two tokens.
C29_Witness ==
  /\ pc = "stream_done"
  /\ LastType = "final"
  /\ raised = <<"NameError">>
  /\ ntok = 2
  /\ Len(events[Len(events)].data.answer) = Len(disclaimer) + 2

(***************************************************************************)
(* C30.  The index is loaded lazily and once: after construction load()    *)
(* has not been called, the first retrieve call calls it, and over any     *)
(* sequence of retrieve calls (retrieve has no suspension point, so calls  *)
(* of concurrent requests run one after the other) the retriever calls     *)
(* load() at most once, whether that load succeeded or failed.             *)
(***************************************************************************)
C30_LoadedLazilyOnce ==
  /\ [](/\ load_calls <= 1
        /\ load_calls = 1 <=> _index_loaded
        /\ op.name = "none" => load_calls = 0
        /\ op.name = "retrieve" => load_calls = 1)
  /\ [][load_calls' # load_calls =>
          /\ ~_index_loaded
          /\ op'.name = "retrieve"
          /\ op'.load \in {"ok", "failed"}]_vars

\* A retrieve call after the one whose load() failed: load() is not called
\* again.
C30_Witness ==
  /\ op.name = "retrieve"
  /\ op.load = "skipped"
  /\ load_calls = 1
  /\ disk.index_file = "missing"
  /\ ~vector_store.has_index

(***************************************************************************)
(* C31.  The flag _index_loaded is true only if the vector store was       *)
(* actually loaded (get_stats reports "loaded"), and a retrieve call whose *)
(* load() found no persisted index leaves the flag false, so that a later  *)
(* retrieve attempts the load again.                                       *)
(***************************************************************************)
C31_FlagOnlyWhenLoaded ==
  /\ _index_loaded => get_stats(vector_store).status = "loaded"
  /\ (op.name = "retrieve" /\ op.load = "failed") => ~_index_loaded

(***************************************************************************)
(* C32.  A load() that does not succeed leaves the in-memory index, the    *)
(* metadata list and the dimension exactly as they were before the call:   *)
(* the three are replaced together or not at all.                          *)
(***************************************************************************)
C32_FailedLoadChangesNothing ==
  [][(op'.name = "load" /\ ~op'.ok) => vector_store' = vector_store]_vars

\* The intent expected for each text (router_intent.py:128-131) and the
\* handler sse.py:53-56 imports for that intent.
ExpectedOf ==
  <<"show", "Saudi", "wildfire", "trend">> :>
      [intent |-> "ask.country", handler |-> "handle_ask_country"]
  @@ <<"MENA", "restoration", "commitments", "by region">> :>
      [intent |-> "commit.region", handler |-> "handle_commit_region"]
  @@ <<"Saudi", "commitments", "by country">> :>
      [intent |-> "commit.country", handler |-> "handle_commit_country"]
  @@ <<"Saudi", "logging", "law", "2020">> :>
      [intent |-> "law.lookup", handler |-> "handle_law_lookup"]

(***************************************************************************)
(* C33.  With lexical stores configured, a streaming request invokes       *)
(* exactly one lexical handler, exactly once: the handler of the intent    *)
(* that route() returns for the text of the request; every bm25 event of   *)
(* the request reports that intent.                                        *)
(***************************************************************************)
C33_OneHandlerOfRoutedIntent ==
  (pc \in StreamPcs \cup {"cancelled"} /\ bm25_stores = "loaded") =>
    /\ query \in DOMAIN ExpectedOf
    /\ slots.intent = ExpectedOf[query].intent
    /\ intent = ExpectedOf[query].intent
    /\ handler_calls = <<ExpectedOf[query].handler>>
    /\ \A n \in 1..Len(events) :
         events[n].type = "bm25" =>
           events[n].data.intent = ExpectedOf[query].intent

\* A commitment-by-region request has emitted its bm25 event and finished.
C33_Witness ==
  /\ pc = "stream_done"
  /\ bm25_stores = "loaded"
  /\ query = <<"MENA", "restoration", "commitments", "by region">>
  /\ handler_calls = <<"handle_commit_region">>
  /\ Len(events) = 2
  /\ events[1].type = "bm25"
  /\ events[1].data.intent = "commit.region"
  /\ events[1].data.hits # <<>>

(***************************************************************************)
(* C34.  The top_k passed to the dense retriever is the top_k of the       *)
(* request (the configured default when the request omits it), so a        *)
(* request never gets more retrieved documents than its top_k.             *)
(***************************************************************************)
C34_RetrievesAtMostTopK ==
  (pc \in GraphPcs /\ dense_calls > 0) =>
    /\ request_top_k \in {effective_top_k(k) : k \in RequestTopKs}
    /\ Len(retrieved_docs) <= request_top_k

=============================================================================
